---- MODULE Spec2Model ----
(***************************************************************************)
(* A model of bun-mock-prisma's createPrismaMock (src/index.ts).           *)
(*                                                                         *)
(* One factory call owns two Maps, mockCache and transactionCache.  Both   *)
(* the main handler (client[prop]) and the model handler                   *)
(* (client[model][prop]) read and write the Map they were given, so a Map  *)
(* holds model stand-ins and operation stubs side by side, keyed by the    *)
(* bare property name.  Objects live in a heap, a reference is an index    *)
(* into it, and a Map is the sequence of its entries in insertion order.   *)
(***************************************************************************)
EXTENDS Integers, Sequences, FiniteSets, TLC

\* ------------------------------------------------------------------ bounds
MaxObjs == 4       \* objects reachable at one time
MaxCalls == 2      \* recorded calls, summed over the reachable stubs
MaxPending == 2    \* promises in flight
MaxTx == 2         \* transaction-scoped instances

\* Property names the test script reads, argument / value / error tokens.
Props == {"user", "post", "create", "archive", "then"}

\* The reads client[M][O] the test script makes: two models sharing an
\* operation name, a name used both as model and as operation, and the
\* promise-detection key.
Paths ==
    {<<"user", "create">>, <<"post", "create">>, <<"user", "user">>,
     <<"user", "then">>}

\* The reads made where transactions run.
TxPaths == {<<"user", "create">>}
TxArgs == {"a1"}

\* The reads made where _reset() is under test: an operation of the
\* commonMethods list and one that is not on it.
ResetPaths == {<<"user", "create">>, <<"user", "archive">>}
Args == {"a1", "a2"}
Vals == {"v1"}
Errs == {"e1"}

\* --------------------------------------------------------------- the state
VARIABLES
    heap,       \* the reachable objects (stubs and model stand-ins), by reference
    caches,     \* [root |-> mockCache, tx |-> transactionCache]
    caches2,    \* the same two Maps of a second createPrismaMock() call
    modelProxies,   \* the variant factory's Map of model stand-ins, by model name
    operationMocks, \* the variant factory's Map of stubs, by operationKey
    txs,        \* number of transaction-scoped instances built so far
    txParent,   \* txParent[t]: the client whose $transaction built instance t
    open,       \* instances whose transaction callback has not returned yet
    pending,    \* promises handed out and not yet awaited, in call order
    result,     \* what the last step delivered to its caller (a settled promise, a throw)
    held        \* a reference the test captured: <<>> or <<record>>

vars == <<heap, caches, caches2, modelProxies, operationMocks, txs, txParent, open, pending, result, held>>

\* A reference: 0 is undefined, i > 0 is heap[i].
Undef == 0

\* Object identity is observable only through ===, so a new object takes the
\* least reference no reachable object has.
MinFree(h) ==
    CHOOSE n \in 1..(Cardinality(DOMAIN h) + 1) :
        n \notin DOMAIN h /\ \A m \in 1..(n - 1) : m \in DOMAIN h

Alloc(h, obj) == h @@ (MinFree(h) :> obj)

\* The root client is instance 0, transaction-scoped instances are 1..txs.
Root == 0
Clients == 0..txs

\* ----------------------------------------------------------- stub objects
\* mock(() => null): the default implementation returns null, no calls yet.
DefaultImpl == [kind |-> "default", val |-> "null"]

NewStub == [kind |-> "stub", storage |-> "-", impl |-> DefaultImpl, calls |-> <<>>]

\* new Proxy({}, createModelHandler(storage)): a stand-in bound to one Map.
NewModel(store) == [kind |-> "model", storage |-> store, impl |-> DefaultImpl, calls |-> <<>>]

\* What a test can install on a stub: mockResolvedValue / mockRejectedValue.
Impls ==
    {DefaultImpl}
        \cup {[kind |-> "resolve", val |-> v] : v \in Vals}
        \cup {[kind |-> "reject", val |-> e] : e \in Errs}

\* Outcome with the configured rejection swallowed.
OutcomeRejectSwallowed(impl) ==
    CASE impl.kind = "default" -> [kind |-> "value", val |-> "null"]
      [] impl.kind = "resolve" -> [kind |-> "value", val |-> impl.val]
      [] impl.kind = "reject" -> [kind |-> "value", val |-> "null"]
      [] impl.kind = "none" -> [kind |-> "value", val |-> "undefined"]

\* A mock function left without any implementation returns undefined.
NoImpl == [kind |-> "none", val |-> "undefined"]

\* What awaiting one call of a stub with implementation impl gives.
Outcome(impl) ==
    CASE impl.kind = "default" -> [kind |-> "value", val |-> "null"]
      [] impl.kind = "resolve" -> [kind |-> "value", val |-> impl.val]
      [] impl.kind = "reject" -> [kind |-> "error", val |-> impl.val]
      [] impl.kind = "none" -> [kind |-> "value", val |-> "undefined"]

\* Calling something that is not a function.
TypeError == [kind |-> "throw", val |-> "TypeError"]

NoResult == [kind |-> "none", val |-> "-"]

\* ------------------------------------------------------- Map<string, ...>
Has(st, k) == \E i \in 1..Len(st) : st[i].key = k

Get(st, k) == st[CHOOSE i \in 1..Len(st) : st[i].key = k].ref

\* StorageOf with isTransaction ignored.
StorageOfRoot(c) == "root"

\* StorageOf with the first transaction-scoped instance on the root Map.
StorageOfFirstTxRoot(c) == IF c <= 1 THEN "root" ELSE "tx"

\* The Map a handler built with isTransaction uses.
StorageOf(c) == IF c = Root THEN "root" ELSE "tx"

\* Map.set: a new key goes to the end, a known key keeps its place.
MapSet(st, k, r) ==
    IF Has(st, k)
    THEN [i \in 1..Len(st) |-> IF st[i].key = k THEN [key |-> k, ref |-> r] ELSE st[i]]
    ELSE Append(st, [key |-> k, ref |-> r])

\* ------------------------------------------------------------ the handlers
\* ModelGet without the storage.has test: every read stores a new stub.
ModelGetAlwaysNew(h, cs, store, prop) ==
    IF prop = "then"
    THEN [heap |-> h, caches |-> cs, ref |-> Undef]
    ELSE LET id == MinFree(h)
         IN  [heap |-> Alloc(h, NewStub),
              caches |-> [cs EXCEPT ![store] = MapSet(@, prop, id)],
              ref |-> id]

\* createModelHandler(storage).get: 'then' is undefined; any other name is
\* looked up in storage, and a default stub is stored there on a miss.
ModelGet(h, cs, store, prop) ==
    IF prop = "then"
    THEN [heap |-> h, caches |-> cs, ref |-> Undef]
    ELSE IF ~Has(cs[store], prop)
         THEN LET id == MinFree(h)
              IN  [heap |-> Alloc(h, NewStub),
                   caches |-> [cs EXCEPT ![store] = Append(@, [key |-> prop, ref |-> id])],
                   ref |-> id]
         ELSE [heap |-> h, caches |-> cs, ref |-> Get(cs[store], prop)]

\* createMainHandler(isTransaction).get for a name other than '$transaction'
\* and '_reset': the name is looked up in the handler's Map, and a model
\* stand-in bound to that same Map is stored there on a miss.
MainGet(h, cs, c, prop) ==
    LET store == StorageOf(c)
    IN  IF ~Has(cs[store], prop)
        THEN LET id == MinFree(h)
             IN  [heap |-> Alloc(h, NewModel(store)),
                  caches |-> [cs EXCEPT ![store] = Append(@, [key |-> prop, ref |-> id])],
                  ref |-> id]
        ELSE [heap |-> h, caches |-> cs, ref |-> Get(cs[store], prop)]

\* value[prop] for a value the main handler returned: a model stand-in answers
\* through its handler; a stub is a plain function, which has none of the
\* names in Props as a property.
PropGet(h, cs, ref, prop) ==
    IF h[ref].kind = "model"
    THEN ModelGet(h, cs, h[ref].storage, prop)
    ELSE [heap |-> h, caches |-> cs, ref |-> Undef]

\* client[M][O] on instance c.
GetPath(h, cs, c, M, O) ==
    LET r == MainGet(h, cs, c, M)
    IN  PropGet(r.heap, r.caches, r.ref, O)

IsStub(h, ref) == ref \in DOMAIN h /\ h[ref].kind = "stub"

\* Record with the newest call put first.
RecordNewestFirst(h, ref, a) == [h EXCEPT ![ref].calls = <<a>> \o @]

\* A call of a stub pushes its arguments onto mock.calls, oldest first.
Record(h, ref, a) == [h EXCEPT ![ref].calls = Append(@, a)]

\* stub.mockResolvedValue(v) / mockRejectedValue(e) / back to the default.
SetImpl(h, ref, impl) == [h EXCEPT ![ref].impl = impl]

\* ------------------------------------------------------------------- reset
\* commonMethods with one more name on the list.
commonMethodsAndAggregate ==
    <<"findMany", "findUnique", "findFirst", "create", "update",
      "upsert", "delete", "deleteMany", "updateMany", "count", "aggregate">>

commonMethods ==
    <<"findMany", "findUnique", "findFirst", "create", "update",
      "upsert", "delete", "deleteMany", "updateMany", "count">>

\* ClearCalls that also puts the default implementation back.
ClearCallsAndImpl(h, ref) == [h EXCEPT ![ref].calls = <<>>, ![ref].impl = DefaultImpl]

\* value.mock.calls = [] on a mock function: the history is replaced by an
\* empty one, nothing else of the stub is touched.
ClearCalls(h, ref) == [h EXCEPT ![ref].calls = <<>>]

\* commonMethods.forEach on one model stand-in: each name is read through the
\* stand-in's handler (which stores a default stub on a miss), and what comes
\* back has its calls emptied when it is a mock function.
RECURSIVE SweepMethods(_, _, _, _)
SweepMethods(h, cs, store, j) ==
    IF j > Len(commonMethods)
    THEN [heap |-> h, caches |-> cs]
    ELSE LET r == ModelGet(h, cs, store, commonMethods[j])
             h2 == IF IsStub(r.heap, r.ref)
                   THEN ClearCalls(r.heap, r.ref)
                   ELSE r.heap
         IN  SweepMethods(h2, r.caches, store, j + 1)

\* SweepCache without the branch for entries that are mock functions: only
\* what a model stand-in answers for the commonMethods names is emptied.
RECURSIVE SweepCacheModelsOnly(_, _, _, _)
SweepCacheModelsOnly(h, cs, name, i) ==
    IF i > Len(cs[name])
    THEN [heap |-> h, caches |-> cs]
    ELSE LET ref == cs[name][i].ref
         IN  IF h[ref].kind = "stub"
             THEN SweepCacheModelsOnly(h, cs, name, i + 1)
             ELSE LET r == SweepMethods(h, cs, h[ref].storage, 1)
                  IN  SweepCacheModelsOnly(r.heap, r.caches, name, i + 1)

\* cache.forEach: entries are visited in insertion order, those the visit
\* itself inserts included.
RECURSIVE SweepCache(_, _, _, _)
SweepCache(h, cs, name, i) ==
    IF i > Len(cs[name])
    THEN [heap |-> h, caches |-> cs]
    ELSE LET ref == cs[name][i].ref
         IN  IF h[ref].kind = "stub"
             THEN SweepCache(ClearCalls(h, ref), cs, name, i + 1)
             ELSE LET r == SweepMethods(h, cs, h[ref].storage, 1)
                  IN  SweepCache(r.heap, r.caches, name, i + 1)

\* resetMockCalls that clears mockCache only.
resetMockCallsRootOnly(h, cs) ==
    LET s1 == SweepCache(h, cs, "root", 1)
        s2 == SweepCache(s1.heap, s1.caches, "tx", 1)
    IN  [heap |-> s2.heap, caches |-> [root |-> <<>>, tx |-> s2.caches.tx]]

\* resetMockCalls without the two clear() calls.
resetMockCallsNoClear(h, cs) ==
    LET s1 == SweepCache(h, cs, "root", 1)
        s2 == SweepCache(s1.heap, s1.caches, "tx", 1)
    IN  [heap |-> s2.heap, caches |-> s2.caches]

\* resetMockCalls(mockCache, transactionCache): both sweeps, then both Maps are
\* cleared.
resetMockCalls(h, cs) ==
    LET s1 == SweepCache(h, cs, "root", 1)
        s2 == SweepCache(s1.heap, s1.caches, "tx", 1)
    IN  [heap |-> s2.heap, caches |-> [root |-> <<>>, tx |-> <<>>]]

\* ------------------------------------------------------------ transactions
\* NewTx handing the callback an instance that exists already.
NewTxReused(n) == IF n = 0 THEN 1 ELSE n

\* new Proxy({}, createMainHandler(true)): the next instance, n built so far.
NewTx(n) == n + 1

\* mock(async (fn) => ...): the mock function a read of '$transaction' builds.
NewTransactionStub ==
    [kind |-> "stub", storage |-> "-", impl |-> [kind |-> "transaction", val |-> "-"], calls |-> <<>>]

\* createMainHandler(isTransaction).get for '$transaction': a new mock function
\* is built and returned, and neither Map is consulted or written.
TransactionGet(h, cs) ==
    [heap |-> Alloc(h, NewTransactionStub), caches |-> cs, ref |-> MinFree(h)]

\* What a transaction callback may come back with.
CbOutcomes ==
    {[kind |-> "value", val |-> v] : v \in Vals \cup {"null"}}
        \cup {[kind |-> "error", val |-> e] : e \in Errs}

\* TxResult with a failure of the callback swallowed.
TxResultSwallowed(r) == IF r.kind = "error" THEN [kind |-> "value", val |-> "null"] ELSE r

\* `return fn(txMock)` inside the async mock: the callback's own outcome.
TxResult(r) == r

\* ------------------------------------------------------------- the machine
Init ==
    /\ heap = <<>>
    /\ caches = [root |-> <<>>, tx |-> <<>>]
    /\ caches2 = [root |-> <<>>, tx |-> <<>>]
    /\ modelProxies = <<>>
    /\ operationMocks = <<>>
    /\ txs = 0
    /\ txParent = <<>>
    /\ open = {}
    /\ pending = <<>>
    /\ result = NoResult
    /\ held = <<>>

Remove(seq, i) == SubSeq(seq, 1, i - 1) \o SubSeq(seq, i + 1, Len(seq))

\* The objects a pair of Maps refers to.
Refs(cs) ==
    {cs.root[i].ref : i \in 1..Len(cs.root)} \cup {cs.tx[i].ref : i \in 1..Len(cs.tx)}

\* The objects something still refers to: the entries of the Maps (those of
\* the variant factory as they are before the step) and the captured reference.  Everything else is garbage and leaves the heap.
Live(cs, cs2, hd) ==
    Refs(cs) \cup Refs(cs2) \cup {hd[i].ref : i \in 1..Len(hd)}
        \cup {modelProxies[i].ref : i \in 1..Len(modelProxies)}
        \cup {operationMocks[i].ref : i \in 1..Len(operationMocks)}

Collect(h, cs, cs2, hd) == [id \in DOMAIN h \cap Live(cs, cs2, hd) |-> h[id]]

RECURSIVE SumCalls(_, _)
SumCalls(h, ids) ==
    IF ids = {} THEN 0
    ELSE LET id == CHOOSE x \in ids : TRUE
         IN  Len(h[id].calls) + SumCalls(h, ids \ {id})

TotalCalls(h) == SumCalls(h, DOMAIN h)

\* const s = client[M][O]
Capture(c, M, O) ==
    LET r == GetPath(heap, caches, c, M, O)
    IN  /\ UNCHANGED <<modelProxies, operationMocks, caches2, txs, txParent, open, pending>>
        /\ caches' = r.caches
        /\ held' = <<[c |-> c, m |-> M, o |-> O, ref |-> r.ref, fresh |-> TRUE]>>
        /\ heap' = Collect(r.heap, caches', caches2, held')
        /\ Cardinality(DOMAIN heap') <= MaxObjs
        /\ result' = NoResult

\* client[M][O].mockResolvedValue(v) and its siblings, on a mock function.
ConfigurePath(c, M, O, impl) ==
    LET r == GetPath(heap, caches, c, M, O)
    IN  /\ UNCHANGED <<modelProxies, operationMocks, caches2, txs, txParent, open, pending, held>>
        /\ Cardinality(DOMAIN r.heap) <= MaxObjs
        /\ result' = NoResult
        /\ IsStub(r.heap, r.ref)
        /\ heap' = SetImpl(r.heap, r.ref, impl)
        /\ caches' = r.caches

\* await client[M][O](a): a mock function records the call and its caller gets
\* the outcome; anything else is not callable.
AwaitPath(c, M, O, a) ==
    LET r == GetPath(heap, caches, c, M, O)
    IN  /\ UNCHANGED <<modelProxies, operationMocks, caches2, txs, txParent, open, pending, held>>
        /\ Cardinality(DOMAIN r.heap) <= MaxObjs
        /\ caches' = r.caches
        /\ IF IsStub(r.heap, r.ref)
           THEN /\ TotalCalls(r.heap) < MaxCalls
                /\ heap' = Record(r.heap, r.ref, a)
                /\ result' = Outcome(r.heap[r.ref].impl)
           ELSE /\ heap' = r.heap
                /\ result' = TypeError

\* client[M][O](a) without awaiting: the call is recorded now, the promise
\* stays in flight.
InvokePath(c, M, O, a) ==
    LET r == GetPath(heap, caches, c, M, O)
    IN  /\ UNCHANGED <<modelProxies, operationMocks, caches2, txs, txParent, open, held>>
        /\ Cardinality(DOMAIN r.heap) <= MaxObjs
        /\ IsStub(r.heap, r.ref)
        /\ TotalCalls(r.heap) < MaxCalls
        /\ Len(pending) < MaxPending
        /\ caches' = r.caches
        /\ heap' = Record(r.heap, r.ref, a)
        /\ pending' = Append(pending, [ref |-> r.ref, arg |-> a, out |-> Outcome(r.heap[r.ref].impl)])
        /\ result' = NoResult

\* The caller of an in-flight call gets its result; promises settle in any order.
Settle(i) ==
    /\ i \in 1..Len(pending)
    /\ result' = pending[i].out
    /\ pending' = Remove(pending, i)
    /\ UNCHANGED <<modelProxies, operationMocks, caches2, heap, caches, txs, txParent, open, held>>

\* s.mockResolvedValue(v) on the captured reference.
ConfigureHeld(impl) ==
    /\ held # <<>>
    /\ IsStub(heap, held[1].ref)
    /\ heap' = SetImpl(heap, held[1].ref, impl)
    /\ result' = NoResult
    /\ UNCHANGED <<modelProxies, operationMocks, caches2, caches, txs, txParent, open, pending, held>>

\* await s(a) on the captured reference.
AwaitHeld(a) ==
    /\ held # <<>>
    /\ IsStub(heap, held[1].ref)
    /\ TotalCalls(heap) < MaxCalls
    /\ heap' = Record(heap, held[1].ref, a)
    /\ result' = Outcome(heap[held[1].ref].impl)
    /\ UNCHANGED <<modelProxies, operationMocks, caches2, caches, txs, txParent, open, pending, held>>

\* c.$transaction(fn): a transaction-scoped instance is built and fn is called
\* with it.  The mock function the read of '$transaction' built is referred
\* to by nothing once it has been called, so it is not in the heap afterwards.
TxBegin(c) ==
    /\ txs < MaxTx
    /\ txs' = NewTx(txs)
    /\ txParent' = Append(txParent, c)
    /\ open' = open \cup {txs'}
    /\ result' = NoResult
    /\ UNCHANGED <<modelProxies, operationMocks, caches2, heap, caches, pending, held>>

\* The callback given instance t comes back with r, which is what awaiting the
\* promise $transaction returned gives.
TxReturn(t, r) ==
    /\ t \in open
    /\ open' = open \ {t}
    /\ result' = TxResult(r)
    /\ UNCHANGED <<modelProxies, operationMocks, caches2, heap, caches, txs, txParent, pending, held>>

\* c._reset()
Reset(c) ==
    LET r == resetMockCalls(heap, caches)
    IN  /\ UNCHANGED <<modelProxies, operationMocks, caches2, txs, txParent, open, pending>>
        /\ result' = NoResult
        /\ caches' = r.caches
        /\ held' = IF held = <<>> THEN held ELSE <<[held[1] EXCEPT !.fresh = FALSE]>>
        /\ heap' = Collect(r.heap, caches', caches2, held')

\* createPrismaMock with the two Maps at module level: every call closes over
\* the first pair.
createPrismaMockShared(k) == 1

\* createPrismaMock(): `new Map()` twice in the function body, so the k-th call
\* returns a client that closes over a pair of Maps of its own, pair k.
createPrismaMock(k) == k

\* The instances of the second mock client: its root, and the instance its
\* $transaction hands to a callback.
OtherClients == {0, 1}

\* The pair of Maps the second mock client reads and writes.
OtherMaps == IF createPrismaMock(2) = 1 THEN caches ELSE caches2

\* That pair becomes cs.
OtherMapsBecome(cs) ==
    IF createPrismaMock(2) = 1
    THEN caches' = cs /\ caches2' = caches2
    ELSE caches2' = cs /\ caches' = caches

\* other[M][O].mockResolvedValue(v) and its siblings on the second mock
\* client, c = 1 inside other.$transaction(async tx => ...).
ConfigureOther(c, M, O, impl) ==
    LET r == GetPath(heap, OtherMaps, c, M, O)
    IN  /\ UNCHANGED <<modelProxies, operationMocks, txs, txParent, open, pending, held>>
        /\ Cardinality(DOMAIN r.heap) <= MaxObjs
        /\ result' = NoResult
        /\ IsStub(r.heap, r.ref)
        /\ heap' = SetImpl(r.heap, r.ref, impl)
        /\ OtherMapsBecome(r.caches)

\* await other[M][O](a) on the second mock client.
AwaitOther(c, M, O, a) ==
    LET r == GetPath(heap, OtherMaps, c, M, O)
    IN  /\ UNCHANGED <<modelProxies, operationMocks, txs, txParent, open, pending, held>>
        /\ Cardinality(DOMAIN r.heap) <= MaxObjs
        /\ OtherMapsBecome(r.caches)
        /\ IF IsStub(r.heap, r.ref)
           THEN /\ TotalCalls(r.heap) < MaxCalls
                /\ heap' = Record(r.heap, r.ref, a)
                /\ result' = Outcome(r.heap[r.ref].impl)
           ELSE /\ heap' = r.heap
                /\ result' = TypeError

\* other._reset() on the second mock client.
ResetOther ==
    LET r == resetMockCalls(heap, OtherMaps)
    IN  /\ UNCHANGED <<modelProxies, operationMocks, txs, txParent, open, pending, held>>
        /\ result' = NoResult
        /\ OtherMapsBecome(r.caches)
        /\ heap' = Collect(r.heap, caches', caches2', held)

\* ------------------------------------------- the variant factory (part_004)
\* The reads client[M][O] made on the variant's client: two models sharing an
\* operation name, and names that contain the separator of operationKey.
VariantPaths ==
    {<<"user", "create">>, <<"post", "create">>, <<"a.b", "c">>, <<"a", "b.c">>}

\* `${String(prop)}.${String(operation)}`
operationKey(prop, operation) == prop \o "." \o operation

\* The model stand-in built for the name prop: its handler closes over prop.
NewModelProxy(prop) ==
    [kind |-> "proxy", storage |-> prop, impl |-> DefaultImpl, calls |-> <<>>]

\* The outer handler's get for a name other than '_reset': the model stand-in
\* cached under the name, built and stored on a miss.
VariantGet(h, mp, prop) ==
    IF ~Has(mp, prop)
    THEN [heap |-> Alloc(h, NewModelProxy(prop)),
          modelProxies |-> Append(mp, [key |-> prop, ref |-> MinFree(h)]),
          ref |-> MinFree(h)]
    ELSE [heap |-> h, modelProxies |-> mp, ref |-> Get(mp, prop)]

\* A model stand-in's get: the stub cached under operationKey, a default stub
\* stored there on a miss.
VariantModelGet(h, ops, prop, operation) ==
    LET k == operationKey(prop, operation)
    IN  IF ~Has(ops, k)
        THEN [heap |-> Alloc(h, NewStub),
              operationMocks |-> Append(ops, [key |-> k, ref |-> MinFree(h)]),
              ref |-> MinFree(h)]
        ELSE [heap |-> h, operationMocks |-> ops, ref |-> Get(ops, k)]

\* client[M][O] on the variant's client.
VariantGetPath(h, mp, ops, M, O) ==
    LET r == VariantGet(h, mp, M)
        q == VariantModelGet(r.heap, ops, r.heap[r.ref].storage, O)
    IN  [heap |-> q.heap, modelProxies |-> r.modelProxies,
         operationMocks |-> q.operationMocks, ref |-> q.ref]

\* What mockReset() may leave as a stub's implementation: the one the mock
\* was created with, or none at all.
ResetImpls == {DefaultImpl, NoImpl}

\* mockReset that keeps the configured implementation, as mockClear does.
mockResetKeepsImpl(h, ref, left) == [h EXCEPT ![ref].calls = <<>>]

\* mockFn.mockReset(): the history is emptied and the configured
\* implementation is removed.
mockReset(h, ref, left) == [h EXCEPT ![ref].calls = <<>>, ![ref].impl = left]

\* for (const mockFn of operationMocks.values()) mockFn.mockReset()
RECURSIVE ResetAll(_, _, _, _)
ResetAll(h, ops, i, left) ==
    IF i > Len(ops) THEN h
    ELSE ResetAll(mockReset(h, ops[i].ref, left), ops, i + 1, left)

\* resetFunction: modelProxies is cleared, every stub of operationMocks is
\* reset and stays in the Map.
resetFunction(h, mp, ops, left) ==
    [heap |-> ResetAll(h, ops, 1, left), modelProxies |-> <<>>, operationMocks |-> ops]

\* The heap without the objects neither the variant's Maps mp, ops nor
\* anything else refers to.
CollectVariant(h, mp, ops) ==
    [id \in DOMAIN h \cap
               (Refs(caches) \cup Refs(caches2)
                   \cup {held[i].ref : i \in 1..Len(held)}
                   \cup {mp[i].ref : i \in 1..Len(mp)}
                   \cup {ops[i].ref : i \in 1..Len(ops)}) |-> h[id]]

\* client[M][O].mockResolvedValue(v) and its siblings on the variant's client.
VariantConfigure(M, O, impl) ==
    LET r == VariantGetPath(heap, modelProxies, operationMocks, M, O)
    IN  /\ UNCHANGED <<caches, caches2, txs, txParent, open, pending, held>>
        /\ Cardinality(DOMAIN r.heap) <= MaxObjs
        /\ result' = NoResult
        /\ heap' = SetImpl(r.heap, r.ref, impl)
        /\ modelProxies' = r.modelProxies
        /\ operationMocks' = r.operationMocks

\* await client[M][O](a) on the variant's client.
VariantAwait(M, O, a) ==
    LET r == VariantGetPath(heap, modelProxies, operationMocks, M, O)
    IN  /\ UNCHANGED <<caches, caches2, txs, txParent, open, pending, held>>
        /\ Cardinality(DOMAIN r.heap) <= MaxObjs
        /\ TotalCalls(r.heap) < MaxCalls
        /\ heap' = Record(r.heap, r.ref, a)
        /\ result' = Outcome(r.heap[r.ref].impl)
        /\ modelProxies' = r.modelProxies
        /\ operationMocks' = r.operationMocks

\* client._reset() on the variant's client.
VariantReset(left) ==
    LET r == resetFunction(heap, modelProxies, operationMocks, left)
    IN  /\ UNCHANGED <<caches, caches2, txs, txParent, open, pending, held>>
        /\ result' = NoResult
        /\ modelProxies' = r.modelProxies
        /\ operationMocks' = r.operationMocks
        /\ heap' = CollectVariant(r.heap, modelProxies', operationMocks')

\* A test of the root client: reads, configuration, awaited calls, a captured
\* reference, resets.
Next ==
    \/ \E p \in Paths : Capture(Root, p[1], p[2])
    \/ \E p \in Paths, impl \in Impls : ConfigurePath(Root, p[1], p[2], impl)
    \/ \E p \in Paths, a \in Args : AwaitPath(Root, p[1], p[2], a)
    \/ \E impl \in Impls : ConfigureHeld(impl)
    \/ \E a \in Args : AwaitHeld(a)
    \/ Reset(Root)

Spec == Init /\ [][Next]_vars

\* The instances in use: the root client and the transaction-scoped instances
\* whose callback is running.
Active == {Root} \cup open

\* Code under test that runs transactions, nested ones included, next to a
\* test that uses the root client.
NextTx ==
    \/ \E c \in Active : TxBegin(c)
    \/ \E t \in 1..MaxTx, r \in CbOutcomes : TxReturn(t, r)
    \/ \E c \in Active, p \in TxPaths, impl \in Impls : ConfigurePath(c, p[1], p[2], impl)
    \/ \E c \in Active, p \in TxPaths, a \in TxArgs : AwaitPath(c, p[1], p[2], a)
    \/ \E c \in Active : Reset(c)

SpecTx == Init /\ [][NextTx]_vars

\* Several calls in flight at once, awaited in any order.  _reset() is not
\* called while a call is in flight.
NextAsync ==
    \/ \E p \in Paths, impl \in Impls : ConfigurePath(Root, p[1], p[2], impl)
    \/ \E p \in Paths, a \in Args : InvokePath(Root, p[1], p[2], a)
    \/ \E i \in 1..MaxPending : Settle(i)
    \/ (pending = <<>> /\ Reset(Root))

SpecAsync == Init /\ [][NextAsync]_vars

\* A test that keeps a reference across _reset(), with transactions running:
\* a stub is captured through any instance in use and called, and _reset() is
\* called on any of them.
NextReset ==
    \/ \E c \in Active : TxBegin(c)
    \/ \E c \in Active, p \in ResetPaths : Capture(c, p[1], p[2])
    \/ \E a \in TxArgs : AwaitHeld(a)
    \/ \E c \in Active : Reset(c)

SpecReset == Init /\ [][NextReset]_vars

\* Two mock clients in one test file, the singleton prismaMock and the result
\* of a further createPrismaMock() call, used side by side.
NextTwo ==
    \/ \E c \in Active : TxBegin(c)
    \/ \E c \in Active, p \in TxPaths, impl \in Impls : ConfigurePath(c, p[1], p[2], impl)
    \/ \E c \in Active, p \in TxPaths, a \in TxArgs : AwaitPath(c, p[1], p[2], a)
    \/ \E c \in Active : Reset(c)
    \/ \E c \in OtherClients, p \in TxPaths, impl \in Impls : ConfigureOther(c, p[1], p[2], impl)
    \/ \E c \in OtherClients, p \in TxPaths, a \in TxArgs : AwaitOther(c, p[1], p[2], a)
    \/ ResetOther

SpecTwo == Init /\ [][NextTwo]_vars

\* A test of the variant factory's client: configuration, awaited calls and
\* resets.
NextVariant ==
    \/ \E p \in VariantPaths, impl \in Impls : VariantConfigure(p[1], p[2], impl)
    \/ \E p \in VariantPaths, a \in TxArgs : VariantAwait(p[1], p[2], a)
    \/ \E left \in ResetImpls : VariantReset(left)

SpecVariant == Init /\ [][NextVariant]_vars

\* ----------------------------------------------------------------- claims
NonReserved == Props \ {"then"}

\* What reading client[M][O] on instance c gives in the current state.
ReadNow(c, M, O) == GetPath(heap, caches, c, M, O)

\* C1: a captured client[M][O] is what a later read of client[M][O] on the
\* same client returns, as long as no _reset() came in between, whatever else
\* was read, configured or called meanwhile.
C1_IdentityStable ==
    (held # <<>> /\ held[1].fresh /\ held[1].o \in NonReserved)
        => ReadNow(held[1].c, held[1].m, held[1].o).ref = held[1].ref

\* C1's case: the captured stub was configured and called after the capture.
C1_Witness ==
    /\ held # <<>>
    /\ held[1].fresh
    /\ IsStub(heap, held[1].ref)
    /\ heap[held[1].ref].impl.kind = "resolve"
    /\ Len(heap[held[1].ref].calls) = 2
    /\ Len(caches.root) = 3

\* C2: once two distinct models and an operation name have been read on the
\* root client, client[M1][O] and client[M2][O] are different stubs.
C2_ModelsIndependent ==
    \A M1 \in NonReserved, M2 \in NonReserved, O \in NonReserved :
        (M1 # M2 /\ M1 # O /\ M2 # O
            /\ Has(caches.root, M1) /\ Has(caches.root, M2) /\ Has(caches.root, O))
        => LET r1 == ReadNow(Root, M1, O)
               r2 == ReadNow(Root, M2, O)
           IN  (IsStub(heap, r1.ref) /\ IsStub(heap, r2.ref)) => r1.ref # r2.ref

\* The step configures some stub, through a path or through the captured reference.
ConfigStep ==
    \/ \E p \in Paths, impl \in Impls : ConfigurePath(Root, p[1], p[2], impl)
    \/ \E impl \in Impls : ConfigureHeld(impl)

\* For a behaviour kind k ("resolve" or "reject"), on every step:
\* (a) configuring client[M][O] raises nothing and a later read of client[M][O]
\*     is a stub with exactly that behaviour;
\* (b) while the stub read as client[M][O] has a behaviour of kind k with value
\*     v, await client[M][O](a) gives the outcome of that behaviour, and the
\*     stub read back as client[M][O] is the same one with a as its newest call;
\* (c) a step that neither configures a stub nor resets leaves that behaviour
\*     on the stub read as client[M][O].
ConfiguredBehaviour(k) ==
    \A p \in Paths :
        LET before == ReadNow(Root, p[1], p[2])
            after == GetPath(heap', caches', Root, p[1], p[2])
            set == IsStub(before.heap, before.ref) /\ before.heap[before.ref].impl.kind = k
        IN  /\ \A impl \in Impls :
                \/ impl.kind # k
                \/ /\ result' = NoResult
                   /\ IsStub(after.heap, after.ref)
                   /\ after.heap[after.ref].impl = impl
                \/ ~ConfigurePath(Root, p[1], p[2], impl)
            /\ \A a \in Args :
                \/ ~set
                \/ /\ result'.kind = (IF k = "resolve" THEN "value" ELSE "error")
                   /\ result'.val = before.heap[before.ref].impl.val
                   /\ after.ref = before.ref
                   /\ after.heap[after.ref].calls # <<>>
                   /\ after.heap[after.ref].calls[Len(after.heap[after.ref].calls)] = a
                \/ ~AwaitPath(Root, p[1], p[2], a)
            /\ \/ ~set
               \/ /\ after.ref = before.ref
                  /\ after.heap[after.ref].impl = before.heap[before.ref].impl
               \/ ConfigStep
               \/ Reset(Root)

\* C3: after client[M][O] is configured to resolve to V, every invocation
\* client[M][O](A) resolves to V and is recorded in the history of the stub
\* read back as client[M][O], until the stub is reconfigured or _reset() runs.
C3_ResolveConfigured == [][ConfiguredBehaviour("resolve")]_vars

\* C3's case: a stub configured to resolve to v1 was awaited twice, and both
\* calls are in its history.
C3_Witness ==
    /\ result = [kind |-> "value", val |-> "v1"]
    /\ \E i \in 1..Len(caches.root) :
        /\ IsStub(heap, caches.root[i].ref)
        /\ heap[caches.root[i].ref].impl = [kind |-> "resolve", val |-> "v1"]
        /\ heap[caches.root[i].ref].calls = <<"a1", "a2">>

\* C4: awaiting client[M][O](a) for non-reserved names M and O gives null and
\* raises nothing, as long as the operation read there has not been configured.
C4_UnconfiguredResolvesNull ==
    [][\A p \in Paths, a \in Args :
          LET before == ReadNow(Root, p[1], p[2])
              configured == IsStub(before.heap, before.ref)
                                /\ before.heap[before.ref].impl # DefaultImpl
          IN  (p[1] \in NonReserved /\ p[2] \in NonReserved /\ ~configured
                  /\ AwaitPath(Root, p[1], p[2], a))
                  => result' = [kind |-> "value", val |-> "null"]]_vars

\* C5: after client[M][O] is configured to reject with E, configuring has
\* raised nothing, and every invocation of the stub rejects with E and is
\* still recorded, until the stub is reconfigured or _reset() runs.
C5_RejectConfigured == [][ConfiguredBehaviour("reject")]_vars

\* C5's case: a stub configured to reject with e1 was awaited, the caller got
\* e1 and the call is in the history.
C5_Witness ==
    /\ result = [kind |-> "error", val |-> "e1"]
    /\ \E i \in 1..Len(caches.root) :
        /\ IsStub(heap, caches.root[i].ref)
        /\ heap[caches.root[i].ref].impl = [kind |-> "reject", val |-> "e1"]
        /\ Len(heap[caches.root[i].ref].calls) = 2

\* C10: when _reset() returns, a fresh read of client[M][O] gives, for all
\* non-reserved names M and O, a stub with no calls and the default behaviour.
C10_FreshAfterReset ==
    [][Reset(Root) =>
          \A M \in NonReserved, O \in NonReserved :
              LET r == GetPath(heap', caches', Root, M, O)
              IN  /\ IsStub(r.heap, r.ref)
                  /\ r.heap[r.ref].calls = <<>>
                  /\ r.heap[r.ref].impl = DefaultImpl]_vars

\* C6: a call is appended to the called stub's history when it is made, no
\* other history changes, and settling the promises in flight, in whatever
\* order, changes no history: the history is in invocation order.
C6_CallOrder ==
    [][/\ \A p \in Paths, a \in Args :
            InvokePath(Root, p[1], p[2], a)
                => LET before == ReadNow(Root, p[1], p[2])
                   IN  /\ heap'[before.ref].calls = Append(before.heap[before.ref].calls, a)
                       /\ \A id \in DOMAIN heap \ {before.ref} :
                              id \in DOMAIN heap' /\ heap'[id].calls = heap[id].calls
       /\ \A i \in 1..MaxPending :
            Settle(i) => \A id \in DOMAIN heap :
                             id \in DOMAIN heap' /\ heap'[id].calls = heap[id].calls]_vars

\* C6's case: two calls a1, a2 of one stub, the later one settled first: a1 is
\* still in flight and the history is a1, a2.
C6_Witness ==
    /\ Len(pending) = 1
    /\ pending[1].arg = "a1"
    /\ IsStub(heap, pending[1].ref)
    /\ heap[pending[1].ref].calls = <<"a1", "a2">>
    /\ result.kind # "none"

\* C7: c.$transaction(C) calls C once, with an instance that did not exist
\* before, and awaiting $transaction gives what C came back with.
C7_TransactionRunsCallback ==
    [][/\ \A c \in Clients :
            TxBegin(c) => /\ txs' \notin Clients
                          /\ txs' \notin open
                          /\ open' = open \cup {txs'}
                          /\ Len(txParent') = txs'
                          /\ txParent'[txs'] = c
       /\ \A t \in 1..MaxTx, r \in CbOutcomes :
            TxReturn(t, r) => result' = r /\ open' = open \ {t}]_vars

\* C7's case: two transactions ran, the second inside the first, and the last
\* callback came back with v1.
C7_Witness ==
    /\ txs = 2
    /\ txParent = <<0, 1>>
    /\ open = {1}
    /\ result = [kind |-> "value", val |-> "v1"]

\* What a cache holds: its entries and the objects they refer to.
View(name) ==
    [entries |-> caches[name],
     objs |-> [i \in 1..Len(caches[name]) |-> heap[caches[name][i].ref]]]

\* C8: a read, configuration or call through a transaction-scoped instance
\* leaves the root cache and its stubs as they were, and one through the root
\* client leaves the transaction cache and its stubs as they were.
C8_TransactionIsolated ==
    [][\A c \in Clients, p \in TxPaths :
          ((\E impl \in Impls : ConfigurePath(c, p[1], p[2], impl))
              \/ (\E a \in TxArgs : AwaitPath(c, p[1], p[2], a)))
          => IF c = Root THEN View("tx")' = View("tx") ELSE View("root")' = View("root")]_vars

\* C8's case: client.user.create and T.user.create both exist, configured
\* differently, and each has been called.
C8_Witness ==
    /\ Has(caches.root, "create") /\ Has(caches.tx, "create")
    /\ heap[Get(caches.root, "create")].impl.kind = "resolve"
    /\ heap[Get(caches.tx, "create")].impl.kind = "reject"
    /\ heap[Get(caches.root, "create")].calls = <<"a1">>
    /\ heap[Get(caches.tx, "create")].calls = <<"a1">>
    /\ Get(caches.root, "create") # Get(caches.tx, "create")

\* T2 was built by T1.$transaction.
Nested(t1, t2) == t1 \in 1..txs /\ t2 \in 1..txs /\ txParent[t2] = t1

\* C9 as stated: configuring or calling T2[M][O], T2 nested in T1, leaves the
\* behaviour and history of T1[M][O] as they were.
C9_NestedIndependent ==
    [][\A t1 \in Clients, t2 \in Clients, p \in TxPaths :
          (Nested(t1, t2)
              /\ ((\E impl \in Impls : ConfigurePath(t2, p[1], p[2], impl))
                      \/ (\E a \in TxArgs : AwaitPath(t2, p[1], p[2], a))))
          => LET before == ReadNow(t1, p[1], p[2])
                 after == GetPath(heap', caches', t1, p[1], p[2])
             IN  after.heap[after.ref] = before.heap[before.ref]]_vars

\* C9 amended: a nested $transaction gives a further instance T2, distinct from
\* T1; T1 and T2 read the one transaction cache, so T2[M][O] is T1[M][O], and
\* when that is an object it is not the root client's client[M][O].
C9_NestedSharesTxCache ==
    \A t1 \in Clients, t2 \in Clients :
        Nested(t1, t2)
            => /\ t1 # t2
               /\ \A M \in NonReserved, O \in NonReserved :
                      LET r1 == ReadNow(t1, M, O)
                          r2 == GetPath(r1.heap, r1.caches, t2, M, O)
                          r0 == GetPath(r2.heap, r2.caches, Root, M, O)
                      IN  r2.ref = r1.ref /\ (r1.ref # Undef => r0.ref # r1.ref)

\* C9's case: T2 was built inside T1's callback, both callbacks are running,
\* and the transaction cache holds a configured stub that was called.
C9_Witness ==
    /\ txs = 2 /\ Nested(1, 2) /\ open = {1, 2}
    /\ Has(caches.tx, "create")
    /\ heap[Get(caches.tx, "create")].impl.kind = "resolve"
    /\ heap[Get(caches.tx, "create")].calls # <<>>

\* C11: whichever instance _reset() is called on (the root client, a
\* transaction-scoped instance, a nested one), mockCache and transactionCache
\* are both empty when it returns.
C11_ResetCoversBothCaches ==
    [][\A c \in Clients : Reset(c) => caches' = [root |-> <<>>, tx |-> <<>>]]_vars

\* C11's case: a stub captured through a nested instance went stale, so
\* _reset() ran with two transaction callbacks running, and both caches are
\* empty.
C11_Witness ==
    /\ open = {1, 2} /\ Nested(1, 2)
    /\ held # <<>> /\ held[1].c = 2 /\ ~held[1].fresh
    /\ IsStub(heap, held[1].ref)
    /\ caches = [root |-> <<>>, tx |-> <<>>]

\* C12: reading 'then' on the root client or on a transaction-scoped instance
\* gives undefined and stores nothing under that key.
C12_ThenOnClientAbsent ==
    \A c \in Clients :
        LET r == MainGet(heap, caches, c, "then")
        IN  r.ref = Undef /\ r.caches = caches /\ r.heap = heap

\* C13: on every model stand-in, reading 'then' gives undefined, creates
\* nothing and leaves both Maps as they were; reading any other name gives a
\* stub: the one cached under that name, or a new default stub, stored under
\* that name, when none was cached.
C13_ModelStandInReads ==
    \A id \in DOMAIN heap :
        heap[id].kind = "model"
            => \A prop \in Props :
                   LET store == heap[id].storage
                       r == PropGet(heap, caches, id, prop)
                   IN  IF prop = "then"
                       THEN r.ref = Undef /\ r.heap = heap /\ r.caches = caches
                       ELSE /\ IsStub(r.heap, r.ref)
                            /\ IF Has(caches[store], prop)
                               THEN /\ r.ref = Get(caches[store], prop)
                                    /\ r.heap = heap /\ r.caches = caches
                               ELSE /\ r.ref \notin DOMAIN heap
                                    /\ r.heap[r.ref] = NewStub
                                    /\ r.caches[store] = Append(caches[store], [key |-> prop, ref |-> r.ref])

\* C14: in every state, for all non-reserved names M and O, client[M] is a
\* model stand-in and client[M][O] is an operation stub.
C14_ReadsWellTyped ==
    \A M \in NonReserved :
        LET r == MainGet(heap, caches, Root, M)
        IN  /\ r.heap[r.ref].kind = "model"
            /\ \A O \in NonReserved :
                   LET q == PropGet(r.heap, r.caches, r.ref, O)
                   IN  IsStub(q.heap, q.ref)

\* What a pair of Maps holds: the entries and the objects they refer to.
ViewOf(h, cs) ==
    [n \in {"root", "tx"} |->
        [entries |-> cs[n], objs |-> [i \in 1..Len(cs[n]) |-> h[cs[n][i].ref]]]]

\* A step of the second mock client; a step of the first.
OtherStep ==
    \/ \E c \in OtherClients, p \in TxPaths, impl \in Impls : ConfigureOther(c, p[1], p[2], impl)
    \/ \E c \in OtherClients, p \in TxPaths, a \in TxArgs : AwaitOther(c, p[1], p[2], a)
    \/ ResetOther

FirstStep ==
    \/ \E c \in Clients : TxBegin(c)
    \/ \E c \in Clients, p \in TxPaths, impl \in Impls : ConfigurePath(c, p[1], p[2], impl)
    \/ \E c \in Clients, p \in TxPaths, a \in TxArgs : AwaitPath(c, p[1], p[2], a)
    \/ \E c \in Clients : Reset(c)

\* C15: a read, configuration, call or reset on one of two mock clients, in a
\* transaction or not, leaves the Maps of the other and the configuration and
\* history of every stub in them as they were, and no object is in the Maps
\* of both.
C15_FactoriesShareNothing ==
    [][/\ OtherStep => ViewOf(heap', caches') = ViewOf(heap, caches)
       /\ FirstStep => ViewOf(heap', caches2') = ViewOf(heap, caches2)
       /\ Refs(caches') \cap Refs(caches2') = {}]_vars

\* C15's case: both clients have a user.create stub, configured differently,
\* each called once.
C15_Witness ==
    /\ Has(caches.root, "create") /\ Has(caches2.root, "create")
    /\ heap[Get(caches.root, "create")].impl.kind = "resolve"
    /\ heap[Get(caches2.root, "create")].impl.kind = "reject"
    /\ heap[Get(caches.root, "create")].calls = <<"a1">>
    /\ heap[Get(caches2.root, "create")].calls = <<"a1">>

\* C16: two reads of client.$transaction with no reset in between give the
\* same stub, so a call made through the first read is in the history of the
\* stub a later read gives.
C16_TransactionEntryStable ==
    LET r1 == TransactionGet(heap, caches)
        called == Record(r1.heap, r1.ref, "fn")
        r2 == TransactionGet(called, r1.caches)
    IN  r2.ref = r1.ref /\ r2.heap[r2.ref].calls = <<"fn">>

\* The captured reference is a stub and a _reset() came after the capture.
StaleStub == held # <<>> /\ ~held[1].fresh /\ IsStub(heap, held[1].ref)

\* C17: a stub captured as client[M][O] before a _reset() is not what
\* client[M][O] gives after it; from then on configuring or calling the
\* captured stub changes nothing the Maps hold, and configuring or calling
\* through the client changes nothing of the captured stub.
C17_CapturedStubStale ==
    [][StaleStub =>
          /\ ReadNow(held[1].c, held[1].m, held[1].o).ref # held[1].ref
          /\ ((\E impl \in Impls : ConfigureHeld(impl)) \/ (\E a \in Args : AwaitHeld(a)))
                 => ViewOf(heap', caches') = ViewOf(heap, caches)
          /\ (\E p \in Paths :
                  \/ \E impl \in Impls : ConfigurePath(Root, p[1], p[2], impl)
                  \/ \E a \in Args : AwaitPath(Root, p[1], p[2], a))
                 => heap'[held[1].ref] = heap[held[1].ref]]_vars

\* C17's case: the captured stub, configured to resolve, was called after the
\* reset, and the new stub at client[M][O] was configured to reject and called.
C17_Witness ==
    /\ StaleStub
    /\ heap[held[1].ref].impl.kind = "resolve"
    /\ heap[held[1].ref].calls = <<"a1">>
    /\ Has(caches.root, held[1].o)
    /\ heap[Get(caches.root, held[1].o)].impl.kind = "reject"
    /\ heap[Get(caches.root, held[1].o)].calls = <<"a2">>

\* C18: _reset(), called on any instance, leaves every stub that either Map
\* held when it was called, whatever its name, with an empty history: a
\* reference kept to such a stub shows no calls afterwards.
C18_ResetEmptiesHistories ==
    [][\A c \in Clients :
          Reset(c) => \A id \in Refs(caches) :
                          (IsStub(heap, id) /\ id \in DOMAIN heap') => heap'[id].calls = <<>>]_vars

\* C18's case: a stub named outside commonMethods, captured through a
\* transaction-scoped instance, went through a _reset() and shows no calls.
C18_Witness ==
    /\ StaleStub
    /\ held[1].c \in 1..txs
    /\ held[1].o = "archive"
    /\ heap[held[1].ref].calls = <<>>
    /\ result = NoResult

\* C19: when the callback handed instance t fails with E, awaiting
\* $transaction fails with that same E, and both Maps and every stub in them
\* stay as the callback left them.
C19_CallbackFailurePropagates ==
    [][\A t \in 1..MaxTx, r \in CbOutcomes :
          (r.kind = "error" /\ TxReturn(t, r))
              => result' = r /\ ViewOf(heap', caches') = ViewOf(heap, caches)]_vars

\* C19's case: the only transaction ended with e1 although no stub rejects,
\* and the stub its callback configured and called is still in the
\* transaction cache.
C19_Witness ==
    /\ txs = 1 /\ open = {}
    /\ result = [kind |-> "error", val |-> "e1"]
    /\ caches.root = <<>>
    /\ Has(caches.tx, "create")
    /\ heap[Get(caches.tx, "create")].impl = [kind |-> "resolve", val |-> "v1"]
    /\ heap[Get(caches.tx, "create")].calls = <<"a1">>

\* C20: _reset() leaves the configured behaviour of every stub that outlives
\* it, the captured one in particular, as it was.
C20_ResetKeepsBehaviour ==
    [][Reset(Root) =>
          /\ \A id \in DOMAIN heap \cap DOMAIN heap' : heap'[id].impl = heap[id].impl
          /\ (held # <<>> /\ IsStub(heap, held[1].ref))
                 => held[1].ref \in DOMAIN heap']_vars

\* C20's case: a captured stub that went through a _reset() rejects with e1
\* when called.
C20_Witness ==
    /\ StaleStub
    /\ heap[held[1].ref].impl = [kind |-> "reject", val |-> "e1"]
    /\ heap[held[1].ref].calls = <<"a1">>
    /\ result = [kind |-> "error", val |-> "e1"]
    /\ caches.root = <<>>

\* What the two forEach sweeps of resetMockCalls leave in the Maps, before
\* the Maps are cleared.
Swept ==
    LET s1 == SweepCache(heap, caches, "root", 1)
        s2 == SweepCache(s1.heap, s1.caches, "tx", 1)
    IN  [root |-> s1.caches, both |-> s2.caches]

\* C21: every _reset() comes to an end: the sweep of a Map inserts only into
\* that Map, at most ten entries, so it visits finitely many entries, and
\* both Maps are empty afterwards.
C21_ResetTerminates ==
    [][\A c \in Clients :
          Reset(c) => /\ Len(Swept.root.root) <= Len(caches.root) + 10
                      /\ Swept.root.tx = caches.tx
                      /\ Swept.both.root = Swept.root.root
                      /\ Len(Swept.both.tx) <= Len(caches.tx) + 10
                      /\ caches' = [root |-> <<>>, tx |-> <<>>]]_vars

\* C21's case: both Maps hold a model stand-in and none of the commonMethods
\* names, so the sweep of each Map inserts ten stubs into the Map it is
\* iterating.
C21_Witness ==
    /\ Has(caches.root, "user") /\ Has(caches.tx, "user")
    /\ Len(Swept.both.root) = Len(caches.root) + 10
    /\ Len(Swept.both.tx) = Len(caches.tx) + 10

C23_PairsNeverShare ==
    \A p1 \in VariantPaths, p2 \in VariantPaths :
        p1 # p2
            => LET r1 == VariantGetPath(heap, modelProxies, operationMocks, p1[1], p1[2])
                   r2 == VariantGetPath(r1.heap, r1.modelProxies, r1.operationMocks,
                                        p2[1], p2[2])
               IN  r1.ref # r2.ref

====
